---- MODULE Spec2Model ----
(***************************************************************************)
(* Model of the room optimizer (src/src/core/room_optimizer.py) and of     *)
(* the write-back of the weekly-planning route                             *)
(* (src/src/api/routes/optimization.py).                                   *)
(*                                                                         *)
(* A RoomOptimizer object is a row of the variables below, indexed by the  *)
(* instance.  optimize() is modelled step by step: the prediction pass,    *)
(* the creation of the decision variables, the two hard constraints, the   *)
(* objective, the solve and the extraction of the solution.                *)
(*                                                                         *)
(* Units: times are whole hours counted from the construction of the       *)
(* optimizer (datetime.now() of __init__ is hour 0); temperatures are      *)
(* tenths of a degree (21.0 is 210); weights are hundredths (0.5 is 50);   *)
(* the reported scores are thousandths (0.8 is 800).                       *)
(* The catalogs below use weights and sizes for which the float products   *)
(* of the code and the exact products of the model truncate to the same    *)
(* integer.                                                                *)
(***************************************************************************)
EXTENDS Integers, Sequences, FiniteSets, TLC

\* ---------------------------------------------------------------- bounds
MaxLessons == 2
MaxRooms == 2
MaxVars == 4
MaxCalls == 2
ReuseMaxLessons == 1
ConcMaxVars == 1
TwinMaxVars == 2
MaxForecasts == 1

\* ------------------------------------------------------- program constants
SevenDays == 168
DefaultTemp == 210
DefaultCapacityWeight == 50
DefaultEquipmentWeight == 20
DefaultTemperatureWeight == 30

Instances == {1, 2}

Keys == {"capacity_weight", "equipment_weight", "temperature_weight"}

\* ------------------------------------------------------------ input data
Room(c, ac, heater) == [capacity |-> c, hasAC |-> ac, hasHeater |-> heater]

\* A lesson whose start_time and end_time carry no UTC suffix, as isoformat()
\* of a naive timestamp gives them.
Lesson(s, e, n) ==
    [start_time |-> s, end_time |-> e, student_count |-> n, utc |-> FALSE]

\* A lesson whose start_time and end_time end in "Z".
UtcLesson(s, e, n) ==
    [start_time |-> s, end_time |-> e, student_count |-> n, utc |-> TRUE]

RoomKinds ==
    { Room(30, TRUE, FALSE), Room(20, FALSE, TRUE), Room(30, TRUE, TRUE) }

LessonKinds ==
    { Lesson(9, 10, 25), Lesson(9, 11, 20), Lesson(10, 11, 25),
      Lesson(9, 10, 40), Lesson(200, 201, 20) }

SeqsUpTo(S, n) == UNION { [1..k -> S] : k \in 0..n }

RoomLists == SeqsUpTo(RoomKinds, MaxRooms)

LessonLists == SeqsUpTo(LessonKinds, MaxLessons)

\* The weight a caller supplies for a key, when it supplies one.
SuppliedWeight(k) ==
    CASE k = "capacity_weight" -> 70
      [] k = "equipment_weight" -> 100
      [] k = "temperature_weight" -> 50

\* The preferences argument: None (given = FALSE) or a mapping over some of
\* the keys.
PreferenceInputs ==
    { [given |-> FALSE, map |-> [k \in {} |-> 0]] } \cup
    { [given |-> TRUE, map |-> [k \in K |-> SuppliedWeight(k)]] : K \in SUBSET Keys }

\* What the forecast of one (lesson, room) pair can come to: the sensor
\* lookup or the forecast raises, the forecast has no hour of the lesson, or
\* the hours of the lesson average to a temperature.
ForecastValues == {260}

Out(kind, t) == [kind |-> kind, temp |-> t]

Outcomes ==
    { Out("fail", 0), Out("nohours", 0) } \cup
    { Out("value", t) : t \in ForecastValues }

\* The terminal statuses of the solver (cp_model.CpSolverStatus).
SolverStatuses == {"UNKNOWN", "MODEL_INVALID", "FEASIBLE", "INFEASIBLE", "OPTIMAL"}

VARIABLES
    rooms,          \* self.rooms
    lessons,        \* self.lessons
    preferences,    \* self.preferences, a mapping key -> weight
    modelVars,      \* self.model: number of variables created in it
    modelCons,      \* self.model: its constraints
    modelObj,       \* self.model: the terms of its objective
    predictions,    \* self.temperature_predictions, a mapping pair -> temp
    pc,             \* where the instance is in optimize()
    cur,            \* the (lesson, room) position of the prediction pass
    assignments,    \* local of optimize(): pair -> variable
    status,         \* the status self.solver.Solve returned
    values,         \* the solver's value of each variable
    result,         \* what optimize() returned
    calls,          \* number of optimize() calls started on the instance
    outcome,        \* this call: what each pair's forecast came to
    loads,          \* this call: number of joblib.load calls
    loaded,         \* this call: the regression model was loaded
    lookups,        \* this call: pairs for which the sensor was looked up
    solves,         \* this call: number of Solve calls
    stored,         \* lesson.room_id of each lesson in the database, 0 is NULL
    persisted       \* number of assignments the route has written

vars == << rooms, lessons, preferences, modelVars, modelCons, modelObj,
           predictions, pc, cur, assignments, status, values, result, calls,
           outcome, loads, loaded, lookups, solves, stored, persisted >>

\* --------------------------------------------------------------- helpers
EmptyMap == [k \in {} |-> 0]

NoResult == [status |-> "none", assignments |-> << >>, stats |-> FALSE]

NLessons(o) == Len(lessons[o])

NRooms(o) == Len(rooms[o])

Pairs(o) == (1..NLessons(o)) \X (1..NRooms(o))

\* dict.get(key, default)
Get(d, key, default) == IF key \in DOMAIN d THEN d[key] ELSE default

\* d[key] = v
Put(d, key, v) == [k \in DOMAIN d \cup {key} |-> IF k = key THEN v ELSE d[k]]

\* Beyond with >= for >.
BeyondOrAt(lesson) == lesson.start_time >= SevenDays

\* lesson_datetime > self.seven_days_from_now
Beyond(lesson) == lesson.start_time > SevenDays

\* fromisoformat(start_time.replace("Z", "+00:00")) is timezone-aware.
Aware(lesson) == lesson.utc

Max(a, b) == IF a >= b THEN a ELSE b

Abs(a) == IF a >= 0 THEN a ELSE 0 - a

\* ------------------------------------------------------------ __init__
DefaultPreferences ==
    [k \in Keys |->
        CASE k = "capacity_weight" -> DefaultCapacityWeight
          [] k = "equipment_weight" -> DefaultEquipmentWeight
          [] k = "temperature_weight" -> DefaultTemperatureWeight]

\* preferences or {...}: None and the empty mapping are replaced by the
\* defaults, any other mapping is kept as it is.
InitPreferences(p) ==
    IF ~p.given \/ DOMAIN p.map = {} THEN DefaultPreferences ELSE p.map

\* Each instance o of C is constructed on (r[o], l[o], p[o]) while the
\* database holds the room st[o][i] for lesson i; the others do not exist.
ConstructedEach(C, r, l, p, st) ==
    /\ rooms = [o \in Instances |-> IF o \in C THEN r[o] ELSE << >>]
    /\ lessons = [o \in Instances |-> IF o \in C THEN l[o] ELSE << >>]
    /\ preferences = [o \in Instances |->
                        IF o \in C THEN InitPreferences(p[o]) ELSE EmptyMap]
    /\ stored = [o \in Instances |-> IF o \in C THEN st[o] ELSE << >>]
    /\ persisted = [o \in Instances |-> 0]
    /\ modelVars = [o \in Instances |-> 0]
    /\ modelCons = [o \in Instances |-> {}]
    /\ modelObj = [o \in Instances |-> {}]
    /\ predictions = [o \in Instances |-> EmptyMap]
    /\ pc = [o \in Instances |-> IF o \in C THEN "idle" ELSE "absent"]
    /\ cur = [o \in Instances |-> <<1, 1>>]
    /\ assignments = [o \in Instances |-> EmptyMap]
    /\ status = [o \in Instances |-> "UNKNOWN"]
    /\ values = [o \in Instances |-> EmptyMap]
    /\ result = [o \in Instances |-> NoResult]
    /\ calls = [o \in Instances |-> 0]
    /\ outcome = [o \in Instances |-> EmptyMap]
    /\ loads = [o \in Instances |-> 0]
    /\ loaded = [o \in Instances |-> FALSE]
    /\ lookups = [o \in Instances |-> {}]
    /\ solves = [o \in Instances |-> 0]

\* No lesson of l has a room in the database.
NoneStored(l) == [i \in 1..Len(l) |-> 0]

\* The instances of C are constructed on (r, l, p).
Constructed(C, r, l, p) ==
    ConstructedEach(C, [o \in Instances |-> r], [o \in Instances |-> l],
                    [o \in Instances |-> p], [o \in Instances |-> NoneStored(l)])

\* The inputs of one call: at most MaxVars decision variables.
Inputs(R, L) == { x \in R \X L : Len(x[1]) * Len(x[2]) <= MaxVars }

Init ==
    \E x \in Inputs(RoomLists, LessonLists), p \in PreferenceInputs :
        Constructed({1}, x[1], x[2], p)

\* ------------------------------------------------------------ optimize
FormatEmptyResult == [status |-> "empty", assignments |-> << >>, stats |-> FALSE]

FormatInfeasibleResult ==
    [status |-> "infeasible", assignments |-> << >>, stats |-> TRUE]

\* An exception that leaves optimize().
Raised(e) == [status |-> e, assignments |-> << >>, stats |-> FALSE]

\* Start without the early return of an empty lesson list.
StartWithoutShortCircuit(o, cap) ==
    /\ pc[o] = "idle"
    /\ calls[o] < cap
    /\ calls' = [calls EXCEPT ![o] = @ + 1]
    /\ outcome' = [outcome EXCEPT ![o] = EmptyMap]
    /\ loads' = [loads EXCEPT ![o] = 0]
    /\ loaded' = [loaded EXCEPT ![o] = FALSE]
    /\ lookups' = [lookups EXCEPT ![o] = {}]
    /\ solves' = [solves EXCEPT ![o] = 0]
    /\ assignments' = [assignments EXCEPT ![o] = EmptyMap]
    /\ result' = [result EXCEPT ![o] = NoResult]
    /\ pc' = [pc EXCEPT ![o] = "load"]
    /\ UNCHANGED << rooms, lessons, preferences, modelVars, modelCons,
                    modelObj, predictions, cur, status, values,
                    stored, persisted >>

\* optimize(), up to the call of the prediction pass; cap bounds the number of
\* calls on one instance.
Start(o, cap) ==
    /\ pc[o] = "idle"
    /\ calls[o] < cap
    /\ calls' = [calls EXCEPT ![o] = @ + 1]
    /\ outcome' = [outcome EXCEPT ![o] = EmptyMap]
    /\ loads' = [loads EXCEPT ![o] = 0]
    /\ loaded' = [loaded EXCEPT ![o] = FALSE]
    /\ lookups' = [lookups EXCEPT ![o] = {}]
    /\ solves' = [solves EXCEPT ![o] = 0]
    /\ assignments' = [assignments EXCEPT ![o] = EmptyMap]
    /\ IF lessons[o] = << >>
       THEN /\ result' = [result EXCEPT ![o] = FormatEmptyResult]
            /\ pc' = pc
       ELSE /\ result' = [result EXCEPT ![o] = NoResult]
            /\ pc' = [pc EXCEPT ![o] = "load"]
    /\ UNCHANGED << rooms, lessons, preferences, modelVars, modelCons,
                    modelObj, predictions, cur, status, values,
                    stored, persisted >>

\* ---------------------------------- _calculate_all_temperature_predictions
\* joblib.load: on an exception the pass returns at once.
LoadModel(o) ==
    /\ pc[o] = "load"
    /\ loads' = [loads EXCEPT ![o] = @ + 1]
    /\ \E ok \in BOOLEAN :
          /\ loaded' = [loaded EXCEPT ![o] = ok]
          /\ pc' = [pc EXCEPT ![o] = IF ok THEN "predict" ELSE "vars"]
    /\ cur' = [cur EXCEPT ![o] = <<1, 1>>]
    /\ UNCHANGED << rooms, lessons, preferences, modelVars, modelCons,
                    modelObj, predictions, assignments, status, values,
                    result, calls, outcome, lookups, solves,
                    stored, persisted >>

\* The table after the default is written for every room of lesson i.
DefaultLesson(tp, i, m) ==
    [k \in DOMAIN tp \cup ({i} \X (1..m)) |->
        IF k[1] = i THEN DefaultTemp ELSE tp[k]]

\* A lesson beyond the horizon: the default for each of its pairs.
PredictBeyond(o) ==
    /\ pc[o] = "predict"
    /\ cur[o][1] <= NLessons(o)
    /\ ~Aware(lessons[o][cur[o][1]])
    /\ Beyond(lessons[o][cur[o][1]])
    /\ predictions' = [predictions EXCEPT
                         ![o] = DefaultLesson(@, cur[o][1], NRooms(o))]
    /\ cur' = [cur EXCEPT ![o] = <<cur[o][1] + 1, 1>>]
    /\ UNCHANGED << rooms, lessons, preferences, modelVars, modelCons,
                    modelObj, pc, assignments, status, values, result, calls,
                    outcome, loads, loaded, lookups, solves,
                    stored, persisted >>

\* What the pass stores for a pair whose forecast came to out.
PredictedTemp(out) == IF out.kind = "value" THEN out.temp ELSE DefaultTemp

\* One (lesson, room) pair of a lesson within the horizon: the body of the
\* try, and its except, where the forecast comes to one of outs.
PredictPairFrom(o, outs) ==
    /\ pc[o] = "predict"
    /\ cur[o][1] <= NLessons(o)
    /\ ~Aware(lessons[o][cur[o][1]])
    /\ ~Beyond(lessons[o][cur[o][1]])
    /\ cur[o][2] <= NRooms(o)
    /\ \E out \in outs :
          /\ predictions' = [predictions EXCEPT
                               ![o] = Put(@, cur[o], PredictedTemp(out))]
          /\ outcome' = [outcome EXCEPT ![o] = Put(@, cur[o], out)]
    /\ lookups' = [lookups EXCEPT ![o] = @ \cup {cur[o]}]
    /\ cur' = [cur EXCEPT ![o] = <<cur[o][1], cur[o][2] + 1>>]
    /\ UNCHANGED << rooms, lessons, preferences, modelVars, modelCons,
                    modelObj, pc, assignments, status, values, result, calls,
                    loads, loaded, solves,
                    stored, persisted >>

\* PredictPair with the except around the loops: a failure ends the pass.
PredictPairAborting(o) ==
    /\ pc[o] = "predict"
    /\ cur[o][1] <= NLessons(o)
    /\ ~Aware(lessons[o][cur[o][1]])
    /\ ~Beyond(lessons[o][cur[o][1]])
    /\ cur[o][2] <= NRooms(o)
    /\ \E out \in Outcomes :
          /\ predictions' = [predictions EXCEPT
                               ![o] = Put(@, cur[o], PredictedTemp(out))]
          /\ outcome' = [outcome EXCEPT ![o] = Put(@, cur[o], out)]
          /\ pc' = [pc EXCEPT ![o] = IF out.kind = "fail" THEN "vars" ELSE @]
    /\ lookups' = [lookups EXCEPT ![o] = @ \cup {cur[o]}]
    /\ cur' = [cur EXCEPT ![o] = <<cur[o][1], cur[o][2] + 1>>]
    /\ UNCHANGED << rooms, lessons, preferences, modelVars, modelCons,
                    modelObj, assignments, status, values, result, calls,
                    loads, loaded, solves,
                    stored, persisted >>

\* A pair of the pass, with the forecasts of Outcomes.
PredictPair(o) == PredictPairFrom(o, Outcomes)

\* The rooms of the lesson are done: the next lesson.
PredictNextLesson(o) ==
    /\ pc[o] = "predict"
    /\ cur[o][1] <= NLessons(o)
    /\ ~Aware(lessons[o][cur[o][1]])
    /\ ~Beyond(lessons[o][cur[o][1]])
    /\ cur[o][2] > NRooms(o)
    /\ cur' = [cur EXCEPT ![o] = <<cur[o][1] + 1, 1>>]
    /\ UNCHANGED << rooms, lessons, preferences, modelVars, modelCons,
                    modelObj, predictions, pc, assignments, status, values,
                    result, calls, outcome, loads, loaded, lookups, solves,
                    stored, persisted >>

\* The lessons are done: the pass returns.
PredictDone(o) ==
    /\ pc[o] = "predict"
    /\ cur[o][1] > NLessons(o)
    /\ pc' = [pc EXCEPT ![o] = "vars"]
    /\ UNCHANGED << rooms, lessons, preferences, modelVars, modelCons,
                    modelObj, predictions, cur, assignments, status, values,
                    result, calls, outcome, loads, loaded, lookups, solves,
                    stored, persisted >>

\* The comparison of a timezone-aware start with the naive horizon raises
\* TypeError, outside the try of the pairs.
PredictRaise(o) ==
    /\ pc[o] = "predict"
    /\ cur[o][1] <= NLessons(o)
    /\ Aware(lessons[o][cur[o][1]])
    /\ result' = [result EXCEPT ![o] = Raised("TypeError")]
    /\ pc' = [pc EXCEPT ![o] = "idle"]
    /\ UNCHANGED << rooms, lessons, preferences, modelVars, modelCons,
                    modelObj, predictions, cur, assignments, status, values,
                    calls, outcome, loads, loaded, lookups, solves,
                    stored, persisted >>

\* --------------------------------------------- _create_assignment_variables
\* NewBoolVar gives each variable the next index of the model.
NewAssignments(first, n, m) ==
    [k \in (1..n) \X (1..m) |-> first + (k[1] - 1) * m + (k[2] - 1)]

\* CreateVars on a model that the instances share (a class attribute).
CreateVarsShared(o) ==
    /\ pc[o] = "vars"
    /\ assignments' = [assignments EXCEPT
                         ![o] = NewAssignments(modelVars[o], NLessons(o), NRooms(o))]
    /\ modelVars' = [q \in Instances |-> modelVars[q] + NLessons(o) * NRooms(o)]
    /\ pc' = [pc EXCEPT ![o] = "capacity"]
    /\ UNCHANGED << rooms, lessons, preferences, modelCons, modelObj,
                    predictions, cur, status, values, result, calls, outcome,
                    loads, loaded, lookups, solves,
                    stored, persisted >>

CreateVars(o) ==
    /\ pc[o] = "vars"
    /\ assignments' = [assignments EXCEPT
                         ![o] = NewAssignments(modelVars[o], NLessons(o), NRooms(o))]
    /\ modelVars' = [modelVars EXCEPT ![o] = @ + NLessons(o) * NRooms(o)]
    /\ pc' = [pc EXCEPT ![o] = "capacity"]
    /\ UNCHANGED << rooms, lessons, preferences, modelCons, modelObj,
                    predictions, cur, status, values, result, calls, outcome,
                    loads, loaded, lookups, solves,
                    stored, persisted >>

\* ------------------------------------------------- _add_capacity_constraints
Con(kind, vs) == [kind |-> kind, vars |-> vs]

\* Fits with > for >=.
FitsStrict(room, lesson) == room.capacity > lesson.student_count

\* room["capacity"] >= student_count
Fits(room, lesson) == room.capacity >= lesson.student_count

ValidRooms(rs, lesson) == { j \in 1..Len(rs) : Fits(rs[j], lesson) }

\* CapacityConstraints without the test of valid_rooms: AddExactlyOne of an
\* empty list for a lesson that no room fits.
CapacityConstraintsUnguarded(rs, ls, asg) ==
    { Con("eq0", {asg[<<i, j>>]}) :
        <<i, j>> \in { k \in DOMAIN asg : ~Fits(rs[k[2]], ls[k[1]]) } }
    \cup
    { Con("exactly1", { asg[<<i, j>>] : j \in ValidRooms(rs, ls[i]) }) :
        i \in 1..Len(ls) }

\* CapacityConstraints with AddAtMostOne for AddExactlyOne.
CapacityConstraintsAtMostOne(rs, ls, asg) ==
    { Con("eq0", {asg[<<i, j>>]}) :
        <<i, j>> \in { k \in DOMAIN asg : ~Fits(rs[k[2]], ls[k[1]]) } }
    \cup
    { Con("atmost1", { asg[<<i, j>>] : j \in ValidRooms(rs, ls[i]) }) :
        i \in { i2 \in 1..Len(ls) : ValidRooms(rs, ls[i2]) # {} } }

CapacityConstraints(rs, ls, asg) ==
    { Con("eq0", {asg[<<i, j>>]}) :
        <<i, j>> \in { k \in DOMAIN asg : ~Fits(rs[k[2]], ls[k[1]]) } }
    \cup
    { Con("exactly1", { asg[<<i, j>>] : j \in ValidRooms(rs, ls[i]) }) :
        i \in { i2 \in 1..Len(ls) : ValidRooms(rs, ls[i2]) # {} } }

AddCapacity(o) ==
    /\ pc[o] = "capacity"
    /\ modelCons' = [modelCons EXCEPT
                       ![o] = @ \cup CapacityConstraints(rooms[o], lessons[o],
                                                         assignments[o])]
    /\ pc' = [pc EXCEPT ![o] = "overlap"]
    /\ UNCHANGED << rooms, lessons, preferences, modelVars, modelObj,
                    predictions, cur, assignments, status, values, result,
                    calls, outcome, loads, loaded, lookups, solves,
                    stored, persisted >>

\* ----------------------------------------------- _add_no_overlap_constraints
\* Overlap that misses two lessons of the same start.
OverlapStartInside(l1, l2) ==
    (l1.start_time < l2.start_time /\ l2.start_time < l1.end_time)
    \/ (l2.start_time < l1.start_time /\ l1.start_time < l2.end_time)

\* start1 < end2 and start2 < end1
Overlap(l1, l2) ==
    l1.start_time < l2.end_time /\ l2.start_time < l1.end_time

NoOverlapConstraints(rs, ls, asg) ==
    { Con("atmost1", {asg[<<t[1], t[3]>>], asg[<<t[2], t[3]>>]}) :
        t \in { u \in (1..Len(ls)) \X (1..Len(ls)) \X (1..Len(rs)) :
                  u[1] < u[2] /\ Overlap(ls[u[1]], ls[u[2]]) } }

\* What lines 99-108 raise, "" when nothing: fromisoformat of a string that
\* ends in "Z" raises ValueError before Python 3.11 (parsesZ is FALSE) and
\* gives a timezone-aware datetime from 3.11 on; the comparison of an aware
\* with a naive datetime raises TypeError.
OverlapError(rs, ls, parsesZ) ==
    IF ~parsesZ /\ \E i \in 1..Len(ls) : ls[i].utc
    THEN "ValueError"
    ELSE IF rs # << >> /\ \E i1, i2 \in 1..Len(ls) : i1 < i2 /\ ls[i1].utc # ls[i2].utc
    THEN "TypeError"
    ELSE ""

AddNoOverlap(o) ==
    /\ pc[o] = "overlap"
    /\ \E parsesZ \in BOOLEAN :
          IF OverlapError(rooms[o], lessons[o], parsesZ) # ""
          THEN /\ result' = [result EXCEPT
                                ![o] = Raised(OverlapError(rooms[o], lessons[o],
                                                           parsesZ))]
               /\ pc' = [pc EXCEPT ![o] = "idle"]
               /\ modelCons' = modelCons
          ELSE /\ modelCons' = [modelCons EXCEPT
                                  ![o] = @ \cup NoOverlapConstraints(
                                             rooms[o], lessons[o], assignments[o])]
               /\ pc' = [pc EXCEPT ![o] = "objective"]
               /\ result' = result
    /\ UNCHANGED << rooms, lessons, preferences, modelVars, modelObj,
                    predictions, cur, assignments, status, values,
                    calls, outcome, loads, loaded, lookups, solves,
                    stored, persisted >>

\* ------------------------------------------------------------ the objective
Term(fam, v, c) == [fam |-> fam, var |-> v, coef |-> c]

\* CapacityFitScore rounded to the nearest integer.
CapacityFitScoreRounded(lesson, room, w) ==
    IF room.capacity > 0
    THEN (2 * lesson.student_count * w + room.capacity) \div (2 * room.capacity)
    ELSE 0

\* int(student_count / capacity * 100 * capacity_weight)
CapacityFitScore(lesson, room, w) ==
    IF room.capacity > 0 THEN (lesson.student_count * w) \div room.capacity ELSE 0

\* EquipmentRaw with >= and <= at the thresholds.
EquipmentRawInclusive(lesson, room, p) ==
    IF Beyond(lesson)
    THEN (IF room.hasAC THEN 20 ELSE 0) + (IF room.hasHeater THEN 20 ELSE 0)
    ELSE (IF ~room.hasAC THEN 0
          ELSE IF p >= 250 THEN 50
          ELSE IF p >= 230 THEN 30
          ELSE IF p >= 210 THEN 10
          ELSE 0)
         +
         (IF ~room.hasHeater THEN 0
          ELSE IF p <= 170 THEN 50
          ELSE IF p <= 190 THEN 30
          ELSE IF p <= 210 THEN 10
          ELSE 0)

\* equipment_score of _add_equipment_objective
EquipmentRaw(lesson, room, p) ==
    IF Beyond(lesson)
    THEN (IF room.hasAC THEN 20 ELSE 0) + (IF room.hasHeater THEN 20 ELSE 0)
    ELSE (IF ~room.hasAC THEN 0
          ELSE IF p > 250 THEN 50
          ELSE IF p > 230 THEN 30
          ELSE IF p > 210 THEN 10
          ELSE 0)
         +
         (IF ~room.hasHeater THEN 0
          ELSE IF p < 170 THEN 50
          ELSE IF p < 190 THEN 30
          ELSE IF p < 210 THEN 10
          ELSE 0)

\* int(equipment_score * equipment_weight)
EquipmentScore(lesson, room, p, w) == (EquipmentRaw(lesson, room, p) * w) \div 100

\* ComfortBand with the 70 band up to 24.5 and the 50 band up to 25.5.
ComfortBandHalfWider(p) ==
    IF 200 <= p /\ p <= 220 THEN 1000
    ELSE IF 190 <= p /\ p <= 230 THEN 900
    ELSE IF 175 <= p /\ p <= 245 THEN 700
    ELSE IF 165 <= p /\ p <= 255 THEN 500
    ELSE Max(0, 300 - Abs(p - 210) * 5)

\* temp_score of _add_temperature_objective, in tenths
ComfortBand(p) ==
    IF 200 <= p /\ p <= 220 THEN 1000
    ELSE IF 190 <= p /\ p <= 230 THEN 900
    ELSE IF 180 <= p /\ p <= 240 THEN 700
    ELSE IF 170 <= p /\ p <= 250 THEN 500
    ELSE Max(0, 300 - Abs(p - 210) * 5)

\* TemperatureScore rounded up.
TemperatureScoreCeiling(p, w) == (ComfortBand(p) * w + 999) \div 1000

\* int(temp_score * temperature_weight)
TemperatureScore(p, w) == (ComfortBand(p) * w) \div 1000

\* The key whose lookup in self.preferences raises KeyError while the
\* objective is built, "" when none does.
MissingKey(rs, ls, prefs) ==
    IF "capacity_weight" \notin DOMAIN prefs
       /\ \E i \in 1..Len(ls) : ValidRooms(rs, ls[i]) # {}
    THEN "capacity_weight"
    ELSE IF "equipment_weight" \notin DOMAIN prefs /\ ls # << >> /\ rs # << >>
    THEN "equipment_weight"
    ELSE IF "temperature_weight" \notin DOMAIN prefs /\ ls # << >> /\ rs # << >>
    THEN "temperature_weight"
    ELSE ""

\* What building the objective raises, "" when nothing: the capacity-fit
\* terms read capacity_weight; the equipment terms compare, lesson by lesson,
\* the start with the naive horizon (TypeError for a timezone-aware start) and
\* then read equipment_weight; the temperature terms read temperature_weight.
ObjectiveError(rs, ls, prefs) ==
    IF MissingKey(rs, ls, prefs) = "capacity_weight" THEN "KeyError"
    ELSE IF rs = << >> \/ ls = << >> THEN ""
    ELSE IF Aware(ls[1]) THEN "TypeError"
    ELSE IF MissingKey(rs, ls, prefs) = "equipment_weight" THEN "KeyError"
    ELSE IF \E i \in 1..Len(ls) : Aware(ls[i]) THEN "TypeError"
    ELSE IF MissingKey(rs, ls, prefs) # "" THEN "KeyError"
    ELSE ""

\* self.temperature_predictions.get((i, j), 21.0)
PredictedAt(tp, k) == Get(tp, k, DefaultTemp)

ObjectiveTerms(rs, ls, prefs, tp, asg) ==
    { Term("capacity", asg[k],
           CapacityFitScore(ls[k[1]], rs[k[2]], prefs["capacity_weight"])) :
        k \in { k2 \in DOMAIN asg : Fits(rs[k2[2]], ls[k2[1]]) } }
    \cup
    { Term("equipment", asg[k],
           EquipmentScore(ls[k[1]], rs[k[2]], PredictedAt(tp, k),
                          prefs["equipment_weight"])) : k \in DOMAIN asg }
    \cup
    { Term("temperature", asg[k],
           TemperatureScore(PredictedAt(tp, k), prefs["temperature_weight"])) :
        k \in DOMAIN asg }

\* Lines 47-53 of optimize: the three families of terms, then Maximize.
BuildObjective(o) ==
    /\ pc[o] = "objective"
    /\ IF ObjectiveError(rooms[o], lessons[o], preferences[o]) # ""
       THEN /\ result' = [result EXCEPT
                             ![o] = Raised(ObjectiveError(rooms[o], lessons[o],
                                                          preferences[o]))]
            /\ pc' = [pc EXCEPT ![o] = "idle"]
            /\ modelObj' = modelObj
       ELSE /\ modelObj' = [modelObj EXCEPT
                              ![o] = ObjectiveTerms(rooms[o], lessons[o],
                                                    preferences[o], predictions[o],
                                                    assignments[o])]
            /\ pc' = [pc EXCEPT ![o] = "solve"]
            /\ result' = result
    /\ UNCHANGED << rooms, lessons, preferences, modelVars, modelCons,
                    predictions, cur, assignments, status, values, calls,
                    outcome, loads, loaded, lookups, solves,
                    stored, persisted >>

\* ------------------------------------------------------------- the solver
Sat(c, s) ==
    LET ones == Cardinality({ v \in c.vars : s[v] = 1 })
    IN  CASE c.kind = "eq0" -> ones = 0
          [] c.kind = "exactly1" -> ones = 1
          [] c.kind = "atmost1" -> ones <= 1

\* The assignments of the model's variables that satisfy its constraints.
Solutions(nv, cons) ==
    { s \in [0..(nv - 1) -> {0, 1}] : \A c \in cons : Sat(c, s) }

RECURSIVE ObjValue(_, _)
ObjValue(terms, s) ==
    IF terms = {} THEN 0
    ELSE LET t == CHOOSE x \in terms : TRUE
         IN  t.coef * s[t.var] + ObjValue(terms \ {t}, s)

\* The solutions of the greatest objective value.
Best(nv, cons, terms) ==
    LET sols == Solutions(nv, cons)
    IN  { s \in sols : \A t \in sols : ObjValue(terms, s) >= ObjValue(terms, t) }

\* Solve that reports the first solution it finds as OPTIMAL.
SolveAnySolution(o) ==
    /\ pc[o] = "solve"
    /\ solves' = [solves EXCEPT ![o] = @ + 1]
    /\ \/ /\ Solutions(modelVars[o], modelCons[o]) = {}
          /\ status' = [status EXCEPT ![o] = "INFEASIBLE"]
          /\ values' = [values EXCEPT ![o] = EmptyMap]
       \/ \E s \in Solutions(modelVars[o], modelCons[o]) :
             /\ status' = [status EXCEPT ![o] = "OPTIMAL"]
             /\ values' = [values EXCEPT ![o] = s]
    /\ pc' = [pc EXCEPT ![o] = "extract"]
    /\ UNCHANGED << rooms, lessons, preferences, modelVars, modelCons,
                    modelObj, predictions, cur, assignments, result, calls,
                    outcome, loads, loaded, lookups,
                    stored, persisted >>

\* self.solver.Solve(self.model) of the solver as __init__ makes it: no time
\* or search limit, so the search ends with a proof.
Solve(o) ==
    /\ pc[o] = "solve"
    /\ solves' = [solves EXCEPT ![o] = @ + 1]
    /\ \/ /\ Solutions(modelVars[o], modelCons[o]) = {}
          /\ status' = [status EXCEPT ![o] = "INFEASIBLE"]
          /\ values' = [values EXCEPT ![o] = EmptyMap]
       \/ \E s \in Best(modelVars[o], modelCons[o], modelObj[o]) :
             /\ status' = [status EXCEPT ![o] = "OPTIMAL"]
             /\ values' = [values EXCEPT ![o] = s]
    /\ pc' = [pc EXCEPT ![o] = "extract"]
    /\ UNCHANGED << rooms, lessons, preferences, modelVars, modelCons,
                    modelObj, predictions, cur, assignments, result, calls,
                    outcome, loads, loaded, lookups,
                    stored, persisted >>

\* Solve of a solver that may stop at any terminal status of CpSolverStatus:
\* FEASIBLE with a solution that need not be the best, UNKNOWN with none.
SolveAnyStatus(o) ==
    /\ pc[o] = "solve"
    /\ solves' = [solves EXCEPT ![o] = @ + 1]
    /\ \/ /\ Solutions(modelVars[o], modelCons[o]) = {}
          /\ status' = [status EXCEPT ![o] = "INFEASIBLE"]
          /\ values' = [values EXCEPT ![o] = EmptyMap]
       \/ \E s \in Best(modelVars[o], modelCons[o], modelObj[o]) :
             /\ status' = [status EXCEPT ![o] = "OPTIMAL"]
             /\ values' = [values EXCEPT ![o] = s]
       \/ \E s \in Solutions(modelVars[o], modelCons[o]) :
             /\ status' = [status EXCEPT ![o] = "FEASIBLE"]
             /\ values' = [values EXCEPT ![o] = s]
       \/ \E st \in {"UNKNOWN", "MODEL_INVALID"} :
             /\ status' = [status EXCEPT ![o] = st]
             /\ values' = [values EXCEPT ![o] = EmptyMap]
    /\ pc' = [pc EXCEPT ![o] = "extract"]
    /\ UNCHANGED << rooms, lessons, preferences, modelVars, modelCons,
                    modelObj, predictions, cur, assignments, result, calls,
                    outcome, loads, loaded, lookups,
                    stored, persisted >>

\* --------------------------------------------------------- _extract_solution
\* The first room whose variable the solver set for lesson i, 0 when none.
AssignedRoom(s, asg, i, m) ==
    LET J == { j \in 1..m : s[asg[<<i, j>>]] = 1 }
    IN  IF J = {} THEN 0 ELSE CHOOSE j \in J : \A j2 \in J : j <= j2

\* The assignment list: the lessons that have a room, in the order of the
\* lessons.
ExtractAssignments(s, asg, n, m) ==
    SelectSeq([i \in 1..n |-> [lesson |-> i, room |-> AssignedRoom(s, asg, i, m)]],
              LAMBDA a : a.room # 0)

\* round(a / b) of Python: to the nearest integer, a tie to the even one.
RoundDiv(a, b) ==
    LET q == a \div b
        r == a % b
    IN  IF 2 * r < b THEN q
        ELSE IF 2 * r > b THEN q + 1
        ELSE IF q % 2 = 0 THEN q ELSE q + 1

\* equipment_score of _extract_solution, in thousandths
ReportedEquipment(room) ==
    500 + (IF room.hasAC THEN 250 ELSE 0) + (IF room.hasHeater THEN 250 ELSE 0)

\* The temperature score every assignment reports, in thousandths (0.8).
ReportedTemperature == 800

\* Scores with overall computed from the rounded capacity_fit.
ScoresFromRounded(lesson, room, prefs) ==
    LET c == room.capacity
        mn == IF lesson.student_count < c THEN lesson.student_count ELSE c
        fit == IF c > 0 THEN RoundDiv(1000 * mn, c) ELSE 0
    IN  [capacity_fit |-> fit,
         equipment |-> ReportedEquipment(room),
         temperature |-> ReportedTemperature,
         overall |-> RoundDiv(fit * prefs["capacity_weight"]
                              + ReportedEquipment(room) * prefs["equipment_weight"]
                              + ReportedTemperature * prefs["temperature_weight"],
                              100)]

\* The "scores" of an assignment, in thousandths: capacity_fit is
\* min(student_count / capacity, 1.0) or 0 for capacity 0, and overall is
\* the weighted sum of the unrounded scores, rounded to three decimals.
Scores(lesson, room, prefs) ==
    LET c == room.capacity
        mn == IF lesson.student_count < c THEN lesson.student_count ELSE c
        rest == ReportedEquipment(room) * prefs["equipment_weight"]
                + ReportedTemperature * prefs["temperature_weight"]
    IN  [capacity_fit |-> IF c > 0 THEN RoundDiv(1000 * mn, c) ELSE 0,
         equipment |-> ReportedEquipment(room),
         temperature |-> ReportedTemperature,
         overall |-> IF c > 0
                     THEN RoundDiv(1000 * mn * prefs["capacity_weight"] + rest * c,
                                   100 * c)
                     ELSE RoundDiv(rest, 100)]

ExtractSolution(rs, ls, s, asg, st, prefs) ==
    LET list == ExtractAssignments(s, asg, Len(ls), Len(rs))
    IN  IF list # << >> /\ ~(Keys \subseteq DOMAIN prefs)
        THEN Raised("KeyError")
        ELSE [status |-> IF st = "OPTIMAL" THEN "optimal" ELSE "feasible",
              assignments |->
                  [n \in 1..Len(list) |->
                      [lesson |-> list[n].lesson,
                       room |-> list[n].room,
                       scores |-> Scores(ls[list[n].lesson], rs[list[n].room],
                                         prefs)]],
              stats |-> TRUE]

\* Return that takes only OPTIMAL for a success.
ReturnOptimalOnly(o) ==
    /\ pc[o] = "extract"
    /\ result' = [result EXCEPT
                    ![o] = IF status[o] = "OPTIMAL"
                           THEN ExtractSolution(rooms[o], lessons[o], values[o],
                                                assignments[o], status[o],
                                                preferences[o])
                           ELSE FormatInfeasibleResult]
    /\ pc' = [pc EXCEPT ![o] = "idle"]
    /\ UNCHANGED << rooms, lessons, preferences, modelVars, modelCons,
                    modelObj, predictions, cur, assignments, status, values,
                    calls, outcome, loads, loaded, lookups, solves,
                    stored, persisted >>

\* Lines 58-62 of optimize: the solver's status decides the result.
Return(o) ==
    /\ pc[o] = "extract"
    /\ result' = [result EXCEPT
                    ![o] = IF status[o] = "OPTIMAL" \/ status[o] = "FEASIBLE"
                           THEN ExtractSolution(rooms[o], lessons[o], values[o],
                                                assignments[o], status[o],
                                                preferences[o])
                           ELSE FormatInfeasibleResult]
    /\ pc' = [pc EXCEPT ![o] = "idle"]
    /\ UNCHANGED << rooms, lessons, preferences, modelVars, modelCons,
                    modelObj, predictions, cur, assignments, status, values,
                    calls, outcome, loads, loaded, lookups, solves,
                    stored, persisted >>

\* ------------------------------------------------- optimize_weekly_planning
\* One turn of the loop over the assignments of an optimal or feasible
\* result: update_lesson_room writes the room of one lesson and commits.
Persist(o) ==
    /\ pc[o] = "idle"
    /\ calls[o] > 0
    /\ result[o].status \in {"optimal", "feasible"}
    /\ persisted[o] < Len(result[o].assignments)
    /\ stored' = [stored EXCEPT
                    ![o][result[o].assignments[persisted[o] + 1].lesson] =
                        result[o].assignments[persisted[o] + 1].room]
    /\ persisted' = [persisted EXCEPT ![o] = @ + 1]
    /\ UNCHANGED << rooms, lessons, preferences, modelVars, modelCons,
                    modelObj, predictions, pc, cur, assignments, status,
                    values, result, calls, outcome, loads, loaded, lookups,
                    solves >>

\* ---------------------------------------------------------- specifications
\* The steps of optimize() other than its start, the forecast of a pair and
\* its solve.
Phases(o) ==
    \/ LoadModel(o)
    \/ PredictBeyond(o)
    \/ PredictNextLesson(o)
    \/ PredictDone(o)
    \/ CreateVars(o)
    \/ AddCapacity(o)
    \/ AddNoOverlap(o)
    \/ BuildObjective(o)
    \/ Return(o)

Step(o) == PredictPair(o) \/ Phases(o)

\* One optimizer, on which optimize() is called once, as the weekly-planning
\* route does.
Next == \E o \in Instances : Start(o, 1) \/ Step(o) \/ Solve(o)

Spec == Init /\ [][Next]_vars

\* The same, with a solver that may stop at any terminal status.
NextAnyStatus == \E o \in Instances : Start(o, 1) \/ Step(o) \/ SolveAnyStatus(o)

SpecAnyStatus == Init /\ [][NextAnyStatus]_vars

\* One optimizer on which optimize() is called again after it returned.
InitReuse ==
    \E x \in Inputs(RoomLists, SeqsUpTo(LessonKinds, ReuseMaxLessons)),
       p \in PreferenceInputs :
        Constructed({1}, x[1], x[2], p)

NextReuse == \E o \in Instances : Start(o, MaxCalls) \/ Step(o) \/ Solve(o)

SpecReuse == InitReuse /\ [][NextReuse]_vars

\* The rooms and lessons of the concurrent requests.
ConcRoomKinds == { Room(30, TRUE, FALSE), Room(20, FALSE, TRUE) }

ConcLessonKinds == { Lesson(9, 11, 20), Lesson(200, 201, 20) }

\* The inputs of one call: lists over the two catalogs above that give at
\* most cap decision variables.
InputsUpTo(cap) ==
    { x \in SeqsUpTo(ConcRoomKinds, cap) \X SeqsUpTo(ConcLessonKinds, cap) :
        Len(x[1]) * Len(x[2]) <= cap }

\* preferences=None
NoPreferences == [given |-> FALSE, map |-> EmptyMap]

\* Two requests at once: the route makes an optimizer for each, on its own
\* rooms and lessons, and the steps of the two calls interleave.
InitConc ==
    \E x1 \in InputsUpTo(ConcMaxVars), x2 \in InputsUpTo(ConcMaxVars) :
        ConstructedEach(Instances,
                        [o \in Instances |-> IF o = 1 THEN x1[1] ELSE x2[1]],
                        [o \in Instances |-> IF o = 1 THEN x1[2] ELSE x2[2]],
                        [o \in Instances |-> NoPreferences],
                        [o \in Instances |->
                            NoneStored(IF o = 1 THEN x1[2] ELSE x2[2])])

SpecConc == InitConc /\ [][Next]_vars

\* Two optimizers constructed on the same rooms, lessons and preferences.
TwinPreferences ==
    { NoPreferences,
      [given |-> TRUE,
       map |-> [k \in {"capacity_weight"} |-> SuppliedWeight(k)]] }

InitTwin ==
    \E x \in InputsUpTo(TwinMaxVars), p \in TwinPreferences :
        Constructed(Instances, x[1], x[2], p)

SpecTwin == InitTwin /\ [][Next]_vars

\* One call on lessons of which some carry the UTC suffix.
UtcLessonKinds ==
    { UtcLesson(9, 10, 25), Lesson(9, 10, 25), Lesson(200, 201, 20) }

InitUtc ==
    \E x \in Inputs(RoomLists, SeqsUpTo(UtcLessonKinds, MaxLessons)) :
        Constructed({1}, x[1], x[2], NoPreferences)

StepUtc(o) == Step(o) \/ PredictRaise(o)

NextUtc == \E o \in Instances : Start(o, 1) \/ StepUtc(o) \/ Solve(o)

SpecUtc == InitUtc /\ [][NextUtc]_vars

\* One call on rooms and lessons at the edges of the scoring rules (a room
\* of capacity 0, a lesson of no student that starts at the horizon), with
\* forecasts at and around every threshold of the equipment and comfort
\* rules.
DetailRoomKinds ==
    { Room(30, TRUE, TRUE), Room(30, TRUE, FALSE), Room(20, FALSE, TRUE),
      Room(20, FALSE, FALSE), Room(0, FALSE, FALSE) }

DetailLessonKinds ==
    { Lesson(9, 10, 20), Lesson(168, 169, 0), Lesson(200, 201, 20) }

DetailTemps == {165, 170, 180, 190, 200, 220, 230, 240, 245, 250, 255, 300}

DetailOutcomes ==
    { Out("fail", 0), Out("nohours", 0) } \cup
    { Out("value", t) : t \in DetailTemps }

\* preferences=None, or a weight of 1.0 on each key.
DetailPreferences ==
    { NoPreferences, [given |-> TRUE, map |-> [k \in Keys |-> 100]] }

\* The number of forecasts a call on (rs, ls) asks for when the model loads.
Forecasts(rs, ls) ==
    Len(rs) * Cardinality({ i \in 1..Len(ls) : ~Beyond(ls[i]) })

InitDetail ==
    \E x \in Inputs(SeqsUpTo(DetailRoomKinds, MaxRooms),
                     SeqsUpTo(DetailLessonKinds, MaxLessons)),
       p \in DetailPreferences :
        /\ Forecasts(x[1], x[2]) <= MaxForecasts
        /\ Constructed({1}, x[1], x[2], p)

PredictPairDetail(o) == PredictPairFrom(o, DetailOutcomes)

NextDetail ==
    \E o \in Instances :
        Start(o, 1) \/ PredictPairDetail(o) \/ Phases(o) \/ Solve(o)

SpecDetail == InitDetail /\ [][NextDetail]_vars

\* The weekly-planning route: the lessons of the date range, of which there
\* is at least one, have rooms in the database, no room with two
\* overlapping lessons; the route optimizes and writes the assignments.
RouteLessonKinds ==
    { Lesson(9, 10, 25), Lesson(9, 11, 20), Lesson(200, 201, 20) }

\* The rooms the database can hold for the lessons ls, over the rooms rs.
StoredRooms(rs, ls) ==
    { st \in [1..Len(ls) -> 0..Len(rs)] :
        \A a, b \in 1..Len(ls) :
            a # b /\ st[a] # 0 /\ st[a] = st[b] => ~Overlap(ls[a], ls[b]) }

InitRoute ==
    \E x \in Inputs(SeqsUpTo(ConcRoomKinds, MaxRooms),
                     SeqsUpTo(RouteLessonKinds, MaxLessons)) :
        /\ x[2] # << >>
        /\ \E st \in StoredRooms(x[1], x[2]) :
              ConstructedEach({1}, [o \in Instances |-> x[1]],
                              [o \in Instances |-> x[2]],
                              [o \in Instances |-> NoPreferences],
                              [o \in Instances |-> st])

NextRoute ==
    \E o \in Instances : Start(o, 1) \/ Step(o) \/ Solve(o) \/ Persist(o)

SpecRoute == InitRoute /\ [][NextRoute]_vars

\* ------------------------------------------------------------- properties
\* optimize() was called on o and has returned.
Returned(o) == pc[o] = "idle" /\ calls[o] > 0

Success(o) == Returned(o) /\ result[o].status \in {"optimal", "feasible"}

\* The places of lesson i in the assignment list of o's result.
Entries(o, i) ==
    { n \in 1..Len(result[o].assignments) : result[o].assignments[n].lesson = i }

\* Some room has the capacity for lesson i.
HasValidRoom(o, i) ==
    \E j \in 1..NRooms(o) : rooms[o][j].capacity >= lessons[o][i].student_count

\* The intervals of lessons a and b overlap.
Clash(o, a, b) ==
    /\ lessons[o][a].start_time < lessons[o][b].end_time
    /\ lessons[o][b].start_time < lessons[o][a].end_time

\* C1: in a result of status optimal or feasible, two distinct lessons
\* assigned to the same room never have overlapping intervals.
NoDoubleBooking ==
    \A o \in Instances :
        Success(o) =>
            \A a, b \in 1..Len(result[o].assignments) :
                LET x == result[o].assignments[a]
                    y == result[o].assignments[b]
                IN  x.lesson # y.lesson /\ x.room = y.room
                        => ~Clash(o, x.lesson, y.lesson)

\* Two lessons share a room in a successful result.
SharedRoomReached ==
    \E o \in Instances :
        /\ Success(o)
        /\ \E a, b \in 1..Len(result[o].assignments) :
              /\ result[o].assignments[a].lesson # result[o].assignments[b].lesson
              /\ result[o].assignments[a].room = result[o].assignments[b].room

\* C2: in a result of status optimal or feasible, every lesson that some
\* room can hold is in the assignment list exactly once, with a room whose
\* capacity is at least its student count.
FittingLessonsAssignedOnce ==
    \A o \in Instances :
        Success(o) =>
            \A i \in 1..NLessons(o) :
                HasValidRoom(o, i) =>
                    /\ Cardinality(Entries(o, i)) = 1
                    /\ \A n \in Entries(o, i) :
                          rooms[o][result[o].assignments[n].room].capacity
                              >= lessons[o][i].student_count

\* Scenario B: the one lesson of 25 students is assigned to the one room of
\* capacity 30, with status optimal.
ScenarioBReached ==
    \E o \in Instances :
        /\ Returned(o)
        /\ rooms[o] = << Room(30, TRUE, FALSE) >>
        /\ lessons[o] = << Lesson(9, 10, 25) >>
        /\ result[o].status = "optimal"
        /\ Len(result[o].assignments) = 1
        /\ result[o].assignments[1].lesson = 1
        /\ result[o].assignments[1].room = 1

\* The lessons that some room can hold can all be placed: each in a room of
\* sufficient capacity, no two overlapping ones in the same room.
RemainingAdmit(o) ==
    LET rem == { i \in 1..NLessons(o) : HasValidRoom(o, i) }
    IN  \E f \in [rem -> 1..NRooms(o)] :
            /\ \A i \in rem :
                  rooms[o][f[i]].capacity >= lessons[o][i].student_count
            /\ \A a, b \in rem : a # b /\ f[a] = f[b] => ~Clash(o, a, b)

\* C3: a lesson that no room can hold is in no returned assignment list, and
\* a call that runs the solver on lessons of which the others can be placed
\* returns optimal or feasible with each of the others assigned.
UnassignableLessonHarmless ==
    \A o \in Instances :
        Returned(o) =>
            /\ \A i \in 1..NLessons(o) : ~HasValidRoom(o, i) => Entries(o, i) = {}
            /\ solves[o] = 1 /\ RemainingAdmit(o) =>
                  /\ Success(o)
                  /\ \A i \in 1..NLessons(o) :
                        HasValidRoom(o, i) => Entries(o, i) # {}

\* A successful result of a call with a lesson no room can hold and a
\* lesson that is assigned.
UnassignableBesideAssignedReached ==
    \E o \in Instances :
        /\ Success(o)
        /\ \E i \in 1..NLessons(o) : ~HasValidRoom(o, i)
        /\ \E i \in 1..NLessons(o) : Entries(o, i) # {}

\* Two overlapping lessons and one room, which can hold either.
ClashScenario(o) ==
    /\ NRooms(o) = 1
    /\ NLessons(o) = 2
    /\ Clash(o, 1, 2)
    /\ HasValidRoom(o, 1)
    /\ HasValidRoom(o, 2)

\* C4 as claimed: of two overlapping lessons and one room that can hold
\* either, a call that runs the solver assigns one lesson and leaves the
\* other out.
OneOfTwoClashingAssigned ==
    \A o \in Instances :
        Returned(o) /\ solves[o] = 1 /\ ClashScenario(o)
            => Len(result[o].assignments) = 1

\* C4 as amended: of two overlapping lessons and one room that can hold
\* either, no call returns a result that assigns one of them, and a call
\* that runs the solver returns infeasible with an empty assignment list.
NeitherClashingAssigned ==
    \A o \in Instances :
        Returned(o) /\ ClashScenario(o) =>
            /\ result[o].assignments = << >>
            /\ ~Success(o)
            /\ solves[o] = 1 => result[o].status = "infeasible"

\* The solver was run on the clash and the call returned infeasible.
ClashInfeasibleReached ==
    \E o \in Instances :
        /\ Returned(o)
        /\ ClashScenario(o)
        /\ solves[o] = 1
        /\ result[o] = FormatInfeasibleResult

\* C5: the status the solver ended with decides the result of a call on a
\* non-empty lesson list: OPTIMAL gives optimal, FEASIBLE gives feasible,
\* any other status gives infeasible with an empty assignment list; each of
\* these results carries the solver statistics, and none is the empty result.
StatusDecidesResult ==
    \A o \in Instances :
        Returned(o) /\ solves[o] = 1 =>
            /\ lessons[o] # << >>
            /\ result[o].stats
            /\ status[o] = "OPTIMAL" => result[o].status = "optimal"
            /\ status[o] = "FEASIBLE" => result[o].status = "feasible"
            /\ status[o] \notin {"OPTIMAL", "FEASIBLE"} =>
                  /\ result[o].status = "infeasible"
                  /\ result[o].assignments = << >>

\* The solver stopped at FEASIBLE with a lesson assigned, and the call
\* returned feasible.
FeasibleReturned ==
    \E o \in Instances :
        /\ Returned(o)
        /\ status[o] = "FEASIBLE"
        /\ result[o].status = "feasible"
        /\ result[o].assignments # << >>

\* C6: a call on an empty lesson list returns the empty result and does
\* nothing else: no model load, no sensor lookup, no prediction, no
\* variable, no constraint, no objective and no solve.
EmptyShortCircuits ==
    \A o \in Instances :
        calls[o] > 0 /\ lessons[o] = << >> =>
            /\ pc[o] = "idle"
            /\ result[o] = FormatEmptyResult
            /\ loads[o] = 0
            /\ lookups[o] = {}
            /\ predictions[o] = EmptyMap
            /\ modelVars[o] = 0
            /\ modelCons[o] = {}
            /\ modelObj[o] = {}
            /\ solves[o] = 0

\* A call on no lessons, two rooms and a partial preferences mapping has
\* returned.
EmptyCallReached ==
    \E o \in Instances :
        /\ Returned(o)
        /\ lessons[o] = << >>
        /\ NRooms(o) = 2
        /\ DOMAIN preferences[o] = {"capacity_weight"}

\* C7: each call of optimize starts on a fresh model and an empty prediction
\* table: nothing of an earlier call on the instance is there (stated for
\* the instances whose preferences hold the three keys, on which no call
\* raises).
FreshModelEachCall ==
    \A o \in Instances :
        pc[o] = "load" /\ DOMAIN preferences[o] = Keys =>
            /\ modelVars[o] = 0
            /\ modelCons[o] = {}
            /\ modelObj[o] = {}
            /\ predictions[o] = EmptyMap

\* C8: optimize completes whichever of the three keys the preferences
\* mapping omits: no lookup of a weight raises.
OmittedKeysDefaulted ==
    \A o \in Instances : result[o].status # "KeyError"

\* C9: when the objective terms are built the prediction table has an entry
\* for every (lesson, room) pair, 21.0 where no forecast was obtained.
PredictionsPopulated ==
    \A o \in Instances :
        pc[o] = "objective" =>
            \A k \in Pairs(o) :
                /\ k \in DOMAIN predictions[o]
                /\ (k \notin DOMAIN outcome[o] \/ outcome[o][k].kind # "value")
                      => predictions[o][k] = 210

Row(o) ==
    << rooms[o], lessons[o], preferences[o], modelVars[o], modelCons[o],
       modelObj[o], predictions[o], pc[o], cur[o], assignments[o], status[o],
       values[o], result[o], calls[o], outcome[o], loads[o], loaded[o],
       lookups[o], solves[o], stored[o], persisted[o] >>

\* The results the call of o can return when it runs alone on its inputs,
\* with the model load and the forecasts this call met.
AloneResults(o) ==
    LET rs == rooms[o]
        ls == lessons[o]
        asg == NewAssignments(0, Len(ls), Len(rs))
        cons == CapacityConstraints(rs, ls, asg) \cup NoOverlapConstraints(rs, ls, asg)
        tp == IF loaded[o]
              THEN [k \in Pairs(o) |->
                      IF ls[k[1]].start_time > 168 THEN 210
                      ELSE IF outcome[o][k].kind = "value"
                      THEN outcome[o][k].temp ELSE 210]
              ELSE EmptyMap
    IN  IF ls = << >> THEN {FormatEmptyResult}
        ELSE IF ObjectiveError(rs, ls, preferences[o]) # ""
        THEN {Raised(ObjectiveError(rs, ls, preferences[o]))}
        ELSE IF Solutions(Len(ls) * Len(rs), cons) = {}
        THEN {FormatInfeasibleResult}
        ELSE { ExtractSolution(rs, ls, s, asg, "OPTIMAL", preferences[o]) :
                 s \in Best(Len(ls) * Len(rs), cons,
                            ObjectiveTerms(rs, ls, preferences[o], tp, asg)) }

\* C11: concurrent calls on separate instances do not interfere: a step
\* changes the fields of one instance only, an instance's model and
\* prediction table hold only its own variables and pairs, and the result of
\* each call is one it returns when run alone on the same inputs.
ConcurrentCallsIsolated ==
    /\ [][\A o \in Instances :
            Row(o)' # Row(o) => \A q \in Instances \ {o} : Row(q)' = Row(q)]_vars
    /\ [](\A o \in Instances :
            /\ modelVars[o] \in {0, NLessons(o) * NRooms(o)}
            /\ \A c \in modelCons[o] : c.vars \subseteq 0..(modelVars[o] - 1)
            /\ DOMAIN predictions[o] \subseteq Pairs(o)
            /\ Returned(o) => result[o] \in AloneResults(o))

\* Two calls on different inputs are under way at once, each past the
\* build of its own model.
ConcurrentCallsReached ==
    /\ pc[1] = "extract"
    /\ status[1] = "OPTIMAL"
    /\ pc[2] = "solve"
    /\ modelVars[1] = 1
    /\ modelVars[2] = 1
    /\ rooms[1] # rooms[2]

\* The two instances were constructed on the same inputs and both calls
\* have returned.
TwinsReturned(o, q) ==
    /\ o # q
    /\ Returned(o)
    /\ Returned(q)
    /\ rooms[o] = rooms[q]
    /\ lessons[o] = lessons[q]
    /\ preferences[o] = preferences[q]

SamePredictions(o, q) ==
    \A k \in Pairs(o) : Get(predictions[o], k, 210) = Get(predictions[q], k, 210)

\* One assignment of rooms alone attains the greatest objective value.
UniqueOptimum(o) ==
    Cardinality(Best(modelVars[o], modelCons[o], modelObj[o])) = 1

UtcLessonsAccepted ==
    \A o \in Instances :
        (\E i \in 1..NLessons(o) : lessons[o][i].utc)
            => result[o].status \notin {"TypeError", "ValueError"}

\* The coefficients of the terms of family fam on the variable of pair k in
\* the objective of o.
Coefs(o, fam, k) ==
    { t.coef : t \in { u \in modelObj[o] :
                         u.fam = fam /\ u.var = assignments[o][k] } }

\* The predicted temperature the objective uses for pair k.
Predicted(o, k) == IF k \in DOMAIN predictions[o] THEN predictions[o][k] ELSE 210

\* C14: the equipment term of every pair is the raw equipment score times
\* equipment_weight, truncated; the raw score is 20 per AC and 20 per heater
\* for a lesson beyond the horizon, and otherwise the AC part (50 above 25,
\* 30 above 23, 10 above 21) plus the heater part (50 below 17, 30 below 19,
\* 10 below 21) of the predicted temperature.
EquipmentTermAsStated ==
    \A o \in Instances :
        pc[o] = "solve" =>
            \A k \in Pairs(o) :
                LET room == rooms[o][k[2]]
                    p == Predicted(o, k)
                    ac == IF ~room.hasAC THEN 0
                          ELSE IF p > 250 THEN 50
                          ELSE IF 230 < p /\ p <= 250 THEN 30
                          ELSE IF 210 < p /\ p <= 230 THEN 10
                          ELSE 0
                    heater == IF ~room.hasHeater THEN 0
                              ELSE IF p < 170 THEN 50
                              ELSE IF 170 <= p /\ p < 190 THEN 30
                              ELSE IF 190 <= p /\ p < 210 THEN 10
                              ELSE 0
                    raw == IF lessons[o][k[1]].start_time > 168
                           THEN (IF room.hasAC THEN 20 ELSE 0)
                                + (IF room.hasHeater THEN 20 ELSE 0)
                           ELSE ac + heater
                IN  Coefs(o, "equipment", k)
                        = { (raw * preferences[o]["equipment_weight"]) \div 100 }

\* At weight 1.0: a pair beyond the horizon in a room with AC and heater
\* has the term 40, and a pair within it, forecast at 25.5 in a room with
\* AC, has the term 50.
EquipmentTermsReached ==
    \E o \in Instances :
        /\ pc[o] = "solve"
        /\ preferences[o]["equipment_weight"] = 100
        /\ \E k \in Pairs(o) :
              /\ lessons[o][k[1]].start_time > 168
              /\ rooms[o][k[2]].hasAC
              /\ rooms[o][k[2]].hasHeater
              /\ Coefs(o, "equipment", k) = {40}
        /\ \E k \in Pairs(o) :
              /\ lessons[o][k[1]].start_time <= 168
              /\ rooms[o][k[2]].hasAC
              /\ Predicted(o, k) = 255
              /\ Coefs(o, "equipment", k) = {50}

\* C15: the temperature term of every pair is the comfort band of its
\* predicted temperature times temperature_weight, truncated; the band is
\* 100 in [20, 22], else 90 in [19, 23], else 70 in [18, 24], else 50 in
\* [17, 25], otherwise max(0, 30 - |p - 21| * 5).
TemperatureTermAsStated ==
    \A o \in Instances :
        pc[o] = "solve" =>
            \A k \in Pairs(o) :
                LET p == Predicted(o, k)
                    d == IF p >= 210 THEN p - 210 ELSE 210 - p
                    band == IF 200 <= p /\ p <= 220 THEN 1000
                            ELSE IF 190 <= p /\ p <= 230 THEN 900
                            ELSE IF 180 <= p /\ p <= 240 THEN 700
                            ELSE IF 170 <= p /\ p <= 250 THEN 500
                            ELSE IF 300 - d * 5 > 0 THEN 300 - d * 5
                            ELSE 0
                IN  Coefs(o, "temperature", k)
                        = { (band * preferences[o]["temperature_weight"]) \div 1000 }

\* At weight 1.0 a pair forecast at 16.5, below every band, has the term 7
\* (the band 7.5 truncated).
BelowBandsReached ==
    \E o \in Instances :
        /\ pc[o] = "solve"
        /\ preferences[o]["temperature_weight"] = 100
        /\ \E k \in Pairs(o) :
              /\ Predicted(o, k) = 165
              /\ Coefs(o, "temperature", k) = {7}

\* The pairs of o that the prediction pass forecast at p have the comfort
\* band b (in tenths) and the temperature term that b gives.
BandAt(o, p, b) ==
    \A k \in Pairs(o) :
        Predicted(o, k) = p =>
            /\ ComfortBand(Predicted(o, k)) = b
            /\ Coefs(o, "temperature", k)
                  = { (b * preferences[o]["temperature_weight"]) \div 1000 }

\* C16 as claimed: the comfort band of 21, 23, 24.5, 25.5 and 30 is 100, 90,
\* 70, 50 and 0.
ComfortExamplesAsClaimed ==
    \A o \in Instances :
        pc[o] = "solve" =>
            /\ BandAt(o, 210, 1000)
            /\ BandAt(o, 230, 900)
            /\ BandAt(o, 245, 700)
            /\ BandAt(o, 255, 500)
            /\ BandAt(o, 300, 0)

\* C16 as amended: the comfort band of 21, 23, 24.5, 25.5 and 30 is 100, 90,
\* 50, 7.5 and 0.
ComfortExamples ==
    \A o \in Instances :
        pc[o] = "solve" =>
            /\ BandAt(o, 210, 1000)
            /\ BandAt(o, 230, 900)
            /\ BandAt(o, 245, 500)
            /\ BandAt(o, 255, 75)
            /\ BandAt(o, 300, 0)

\* At weight 1.0 a pair forecast at 24.5 has the term 50.
HalfDegreeAboveBandReached ==
    \E o \in Instances :
        /\ pc[o] = "solve"
        /\ preferences[o]["temperature_weight"] = 100
        /\ \E k \in Pairs(o) :
              /\ Predicted(o, k) = 245
              /\ Coefs(o, "temperature", k) = {50}

\* C17: a pair has a capacity-fit term exactly when the capacity of the
\* room is at least the student count; its coefficient is
\* floor(student_count / capacity * 100 * capacity_weight), 0 for capacity
\* 0; of two rooms that hold a lesson the smaller never has the lower
\* coefficient.
CapacityFitTermAsStated ==
    \A o \in Instances :
        pc[o] = "solve" =>
            /\ \A k \in Pairs(o) :
                  LET c == rooms[o][k[2]].capacity
                      n == lessons[o][k[1]].student_count
                  IN  Coefs(o, "capacity", k) =
                          IF c >= n
                          THEN { IF c = 0 THEN 0
                                 ELSE (n * preferences[o]["capacity_weight"]) \div c }
                          ELSE {}
            /\ \A i \in 1..NLessons(o) : \A j1, j2 \in 1..NRooms(o) :
                  /\ lessons[o][i].student_count <= rooms[o][j1].capacity
                  /\ rooms[o][j1].capacity <= rooms[o][j2].capacity
                  => \A c1 \in Coefs(o, "capacity", <<i, j1>>) :
                         \A c2 \in Coefs(o, "capacity", <<i, j2>>) : c1 >= c2

\* At weight 1.0 a lesson of 20 students has the term 66 on a room of 30
\* and the term 100 on a room of 20 of the same call.
CapacityFitExampleReached ==
    \E o \in Instances :
        /\ pc[o] = "solve"
        /\ preferences[o]["capacity_weight"] = 100
        /\ \E i \in 1..NLessons(o) : \E j1, j2 \in 1..NRooms(o) :
              /\ lessons[o][i].student_count = 20
              /\ rooms[o][j1].capacity = 30
              /\ rooms[o][j2].capacity = 20
              /\ Coefs(o, "capacity", <<i, j1>>) = {66}
              /\ Coefs(o, "capacity", <<i, j2>>) = {100}

\* The equipment and temperature scores of assignment a of o are as
\* reported, and overall is the weighted sum of min(student_count /
\* capacity, 1) (0 for capacity 0), equipment and temperature, to the
\* nearest thousandth.
EquipmentTemperatureOverall(o, a) ==
    LET room == rooms[o][a.room]
        c == room.capacity
        n == lessons[o][a.lesson].student_count
        mn == IF n < c THEN n ELSE c
        eq == 500 + (IF room.hasAC THEN 250 ELSE 0)
                  + (IF room.hasHeater THEN 250 ELSE 0)
        rest == eq * preferences[o]["equipment_weight"]
                + 800 * preferences[o]["temperature_weight"]
        cden == IF c > 0 THEN c ELSE 1
        exact == (IF c > 0 THEN 1000 * mn * preferences[o]["capacity_weight"]
                  ELSE 0) + rest * cden
        err == a.scores.overall * 100 * cden - exact
    IN  /\ a.scores.equipment = eq
        /\ a.scores.temperature = 800
        /\ 2 * err <= 100 * cden
        /\ 2 * err >= 0 - 100 * cden

\* C18 as claimed: every assignment of a returned result reports
\* capacity_fit = min(student_count / capacity, 1.0), 0 for capacity 0,
\* equipment = 0.5 + 0.25 per AC + 0.25 per heater, the fixed temperature
\* placeholder, and overall = the weighted sum rounded to 3 decimals.
ReportedScoresAsClaimed ==
    \A o \in Instances :
        Success(o) =>
            \A n \in 1..Len(result[o].assignments) :
                LET a == result[o].assignments[n]
                    c == rooms[o][a.room].capacity
                    sc == lessons[o][a.lesson].student_count
                IN  /\ a.scores.capacity_fit * c
                          = 1000 * (IF sc < c THEN sc ELSE c)
                    /\ c = 0 => a.scores.capacity_fit = 0
                    /\ EquipmentTemperatureOverall(o, a)

\* C18 as amended: the reported capacity_fit is min(student_count /
\* capacity, 1.0) rounded to 3 decimals, 0 for capacity 0; equipment is 0.5
\* + 0.25 per AC + 0.25 per heater; temperature is the fixed 0.8 whatever
\* the predicted temperature; overall is the weighted sum of the unrounded
\* capacity fit, equipment and temperature, rounded to 3 decimals.
ReportedScores ==
    \A o \in Instances :
        Success(o) =>
            \A n \in 1..Len(result[o].assignments) :
                LET a == result[o].assignments[n]
                    c == rooms[o][a.room].capacity
                    sc == lessons[o][a.lesson].student_count
                    mn == IF sc < c THEN sc ELSE c
                IN  /\ c > 0 =>
                          /\ 2 * (a.scores.capacity_fit * c - 1000 * mn) <= c
                          /\ 2 * (1000 * mn - a.scores.capacity_fit * c) <= c
                    /\ c = 0 => a.scores.capacity_fit = 0
                    /\ EquipmentTemperatureOverall(o, a)

\* A lesson of 20 students forecast at 30 degrees in a room of 30 with AC
\* and heater is reported with capacity_fit 0.667, equipment 1.0,
\* temperature 0.8 and, under the default weights, overall 0.773.
ReportedScoresReached ==
    \E o \in Instances :
        /\ Success(o)
        /\ preferences[o] = DefaultPreferences
        /\ Len(result[o].assignments) = 1
        /\ rooms[o][result[o].assignments[1].room] = Room(30, TRUE, TRUE)
        /\ lessons[o][result[o].assignments[1].lesson].student_count = 20
        /\ Predicted(o, <<result[o].assignments[1].lesson,
                          result[o].assignments[1].room>>) = 300
        /\ result[o].assignments[1].scores
              = [capacity_fit |-> 667, equipment |-> 1000, temperature |-> 800,
                 overall |-> 773]

\* C19: when the regression model loads, every pair of a lesson that starts
\* later than the horizon gets 21.0 without a sensor lookup or a forecast,
\* and the lookups and forecasts are made for the pairs of the lessons at or
\* before the horizon and for no other.
HorizonSplitsThePass ==
    \A o \in Instances :
        /\ \A k \in lookups[o] : lessons[o][k[1]].start_time <= 168
        /\ loaded[o] /\ pc[o] \notin {"load", "predict"} =>
              \A k \in Pairs(o) :
                  IF lessons[o][k[1]].start_time > 168
                  THEN /\ k \in DOMAIN predictions[o]
                       /\ predictions[o][k] = 210
                       /\ k \notin lookups[o]
                  ELSE k \in lookups[o]

\* The pass is over on a lesson that starts at the horizon, looked up and
\* forecast, and a lesson beyond it, defaulted without a lookup.
HorizonSplitReached ==
    \E o \in Instances :
        /\ loaded[o]
        /\ pc[o] = "vars"
        /\ \E k1, k2 \in Pairs(o) :
              /\ lessons[o][k1[1]].start_time = 168
              /\ k1 \in lookups[o]
              /\ outcome[o][k1].kind = "value"
              /\ lessons[o][k2[1]].start_time > 168
              /\ k2 \notin lookups[o]
              /\ predictions[o][k2] = 210

\* C20: starting from stored rooms without a double booking, while and
\* after the route writes an optimal or feasible result no room of the
\* database hosts two overlapping lessons of the date range, the lessons the
\* optimizer left unassigned included.
StoredRoomsNeverDoubleBooked ==
    \A o \in Instances :
        \A a, b \in 1..NLessons(o) :
            a # b /\ stored[o][a] # 0 /\ stored[o][a] = stored[o][b]
                => ~Clash(o, a, b)

====
